---- MODULE Spec2Model ----
(***************************************************************************)
(* vscode-switch-font: the font enumerator (getMonospacedFonts,            *)
(* parseMonospacedFonts) and the two-stage selection flow (font picker,    *)
(* weight picker) of the command extension.selectMonospacedFont.           *)
(*                                                                         *)
(* The repository holds two builds of the extension: src/unnamed/part_000  *)
(* (handleFontSelection / handleWeightSelection) and src/src/extension.ts  *)
(* (everything inline in activate).  The variable build says which one     *)
(* runs; both share the enumerator.                                        *)
(*                                                                         *)
(* A JavaScript string is a sequence of one-character strings, so that     *)
(* split, trim, replace, join and the registry regular expression are      *)
(* computed character by character.                                        *)
(***************************************************************************)
EXTENDS Integers, Sequences, FiniteSets, TLC

----------------------------------------------------------------------------
(* JavaScript string and array primitives used by the source.              *)

\* undefined: a value no string equals (every character of a string is one
\* character long)
Undefined == <<"undefined">>

Range(s) == { s[k] : k \in 1..Len(s) }

\* \s of a JavaScript regular expression, and the white space trim() strips
IsWs(c) == c \in {" ", "\t", "\n", "\r"}

\* a LineTerminator: what "." does not match and what "$" (flag m) stops at
IsLineTerminator(c) == c \in {"\n", "\r"}

\* String.prototype.toLowerCase, one character
LowerChar(c) ==
  CASE c = "A" -> "a"
    [] c = "B" -> "b"
    [] c = "C" -> "c"
    [] c = "D" -> "d"
    [] c = "E" -> "e"
    [] c = "F" -> "f"
    [] c = "G" -> "g"
    [] c = "H" -> "h"
    [] c = "I" -> "i"
    [] c = "J" -> "j"
    [] c = "K" -> "k"
    [] c = "L" -> "l"
    [] c = "M" -> "m"
    [] c = "N" -> "n"
    [] c = "O" -> "o"
    [] c = "P" -> "p"
    [] c = "Q" -> "q"
    [] c = "R" -> "r"
    [] c = "S" -> "s"
    [] c = "T" -> "t"
    [] c = "U" -> "u"
    [] c = "V" -> "v"
    [] c = "W" -> "w"
    [] c = "X" -> "x"
    [] c = "Y" -> "y"
    [] c = "Z" -> "z"
    [] OTHER -> c

toLowerCase(s) == [k \in 1..Len(s) |-> LowerChar(s[k])]

\* the least index >= from whose character satisfies P, Len(s)+1 when none
RECURSIVE SkipWhile(_, _, _)
SkipWhile(s, from, ws) ==
  IF from > Len(s) THEN Len(s) + 1
  ELSE IF IsWs(s[from]) = ws THEN SkipWhile(s, from + 1, ws)
  ELSE from

\* first index >= from of a line terminator, Len(s)+1 when none
RECURSIVE LineEnd(_, _)
LineEnd(s, from) ==
  IF from > Len(s) THEN Len(s) + 1
  ELSE IF IsLineTerminator(s[from]) THEN from
  ELSE LineEnd(s, from + 1)

Slice(s, a, b) == IF a > b THEN <<>> ELSE SubSeq(s, a, b)

\* String.prototype.startsWith, from position at (1-based)
MatchesAt(s, sub, at) ==
  /\ at + Len(sub) - 1 <= Len(s)
  /\ \A k \in 1..Len(sub) : s[at + k - 1] = sub[k]

startsWith(s, sub) == MatchesAt(s, sub, 1)

\* String.prototype.indexOf: the first position (1-based) of sub in s, 0 when none
indexOfStr(s, sub) ==
  IF \E at \in 1..(Len(s) + 1) : MatchesAt(s, sub, at)
  THEN CHOOSE at \in 1..(Len(s) + 1) :
         /\ MatchesAt(s, sub, at)
         /\ \A b \in 1..(at - 1) : ~MatchesAt(s, sub, b)
  ELSE 0

includes(s, sub) == indexOfStr(s, sub) # 0

\* String.prototype.replace(sub, ''): the first occurrence of sub removed
replaceFirst(s, sub) ==
  LET at == indexOfStr(s, sub)
  IN  IF at = 0 THEN s
      ELSE Slice(s, 1, at - 1) \o Slice(s, at + Len(sub), Len(s))

\* String.prototype.trim
RECURSIVE TrimEnd(_)
TrimEnd(s) ==
  IF s = <<>> THEN s
  ELSE IF IsWs(s[Len(s)]) THEN TrimEnd(Slice(s, 1, Len(s) - 1))
  ELSE s

trim(s) == LET a == SkipWhile(s, 1, TRUE) IN TrimEnd(Slice(s, a, Len(s)))

\* String.prototype.split(sep) for a one-character separator: '' gives ['']
RECURSIVE split(_, _)
split(s, sep) ==
  IF \E k \in 1..Len(s) : s[k] = sep
  THEN LET at == CHOOSE k \in 1..Len(s) :
                   s[k] = sep /\ \A b \in 1..(k - 1) : s[b] # sep
       IN  <<Slice(s, 1, at - 1)>> \o split(Slice(s, at + 1, Len(s)), sep)
  ELSE <<s>>

\* Array.prototype.join
RECURSIVE join(_, _)
join(parts, sep) ==
  IF parts = <<>> THEN <<>>
  ELSE IF Len(parts) = 1 THEN parts[1]
  ELSE parts[1] \o sep \o join(Tail(parts), sep)

\* Array.prototype.indexOf (1-based; 0 when absent)
indexOf(a, v) ==
  IF \E k \in 1..Len(a) : a[k] = v
  THEN CHOOSE k \in 1..Len(a) : a[k] = v /\ \A b \in 1..(k - 1) : a[b] # v
  ELSE 0

\* a.filter((v, i, a) => a.indexOf(v) === i)
RECURSIVE FilterFirst(_, _)
FilterFirst(a, k) ==
  IF k > Len(a) THEN <<>>
  ELSE (IF indexOf(a, a[k]) = k THEN <<a[k]>> ELSE <<>>) \o FilterFirst(a, k + 1)

removeDuplicates(a) == FilterFirst(a, 1)

\* Set.prototype.add on an insertion-ordered Set, kept as the sequence
\* Array.from(set) returns
SetAdd(set, v) == IF v \in Range(set) THEN set ELSE Append(set, v)

\* JavaScript truthiness of a string | undefined
Truthy(s) == s # Undefined /\ s # <<>>

----------------------------------------------------------------------------
(* parseMonospacedFonts                                                    *)

S_REG_SZ == <<"R", "E", "G", "_", "S", "Z">>
S_ttf == <<".", "t", "t", "f">>
S_mono == <<"m", "o", "n", "o">>
S_dot == <<".">>

UnixPlatforms == {"darwin", "linux"}

\* ^ under flag m: the start of the input or just after a line terminator
AtLineStart(s, p) == p = 1 \/ (p - 1 <= Len(s) /\ IsLineTerminator(s[p - 1]))

\* One attempt of /^\s*([^\s]+)\s+REG_SZ\s+(.*\.ttf)$/m with ^ at position p.
\* \s* and \s+ may run over line ends, "." may not, and $ holds at the end
\* of the line the path is on.  ok: whether it matches; name: group 1;
\* next: the position after the match (lastIndex).
regexAt(s, p) ==
  LET a == SkipWhile(s, p, TRUE)
      b == SkipWhile(s, a, FALSE)
      c == SkipWhile(s, b, TRUE)
      d == SkipWhile(s, c + Len(S_REG_SZ), TRUE)
      e == LineEnd(s, d)
  IN  [ok   |-> /\ AtLineStart(s, p)
                /\ a <= Len(s)
                /\ b <= Len(s)
                /\ MatchesAt(s, S_REG_SZ, c)
                /\ d > c + Len(S_REG_SZ)
                /\ e - Len(S_ttf) >= d
                /\ MatchesAt(s, S_ttf, e - Len(S_ttf)),
       name |-> Slice(s, a, b - 1),
       next |-> e]

\* while ((match = regex.exec(output)) !== null) { ... } from lastIndex = from
RECURSIVE regexLoop(_, _, _)
regexLoop(s, from, fonts) ==
  LET starts == { p \in from..Len(s) : regexAt(s, p).ok }
  IN  IF starts = {} THEN fonts
      ELSE LET p == CHOOSE q \in starts : \A r \in starts : q <= r
               m == regexAt(s, p)
           IN  regexLoop(s, m.next,
                 IF includes(toLowerCase(m.name), S_mono)
                 THEN SetAdd(fonts, m.name) ELSE fonts)

\* for (const line of lines) { if (line && !line.startsWith('.')) add(trim) }
RECURSIVE lineLoop(_, _, _)
lineLoop(lines, k, fonts) ==
  IF k > Len(lines) THEN fonts
  ELSE lineLoop(lines, k + 1,
         IF lines[k] # <<>> /\ ~startsWith(lines[k], S_dot)
         THEN SetAdd(fonts, trim(lines[k])) ELSE fonts)

parseMonospacedFonts(output, plat) ==
  IF plat = "win32" THEN regexLoop(output, 1, <<>>)
  ELSE IF plat \in UnixPlatforms THEN lineLoop(split(output, "\n"), 1, <<>>)
  ELSE <<>>

----------------------------------------------------------------------------
(* String constants of the source, and the inputs the model draws from.    *)

S_CurrentFont ==
  <<"C", "u", "r", "r", "e", "n", "t", " ", "F", "o", "n", "t", ":", " ">>

S_commaSpace ==
  <<",", " ">>

S_FiraConsolas ==
  <<"F", "i", "r", "a", " ", "C", "o", "d", "e", ",", " ", "C", "o", "n",
    "s", "o", "l", "a", "s">>

S_ConsolasCourier ==
  <<"C", "o", "n", "s", "o", "l", "a", "s", ",", " ", "C", "o", "u", "r",
    "i", "e", "r", " ", "N", "e", "w">>

S_Untidy ==
  <<"C", "o", "n", "s", "o", "l", "a", "s", ",", "F", "i", "r", "a", " ",
    "C", "o", "d", "e", " ", ",", " ", "C", "o", "n", "s", "o", "l", "a",
    "s">>

U_Two ==
  <<"C", "o", "n", "s", "o", "l", "a", "s", "\n", "F", "i", "r", "a", " ",
    "C", "o", "d", "e", "\n">>

U_Blank ==
  <<" ", "\n", "F", "i", "r", "a", " ", "C", "o", "d", "e", "\n">>

W_Tokens ==
  <<"\r", "\n", "H", "K", "L", "M", "\\", "F", "o", "n", "t", "s", "\r",
    "\n", " ", " ", " ", " ", "F", "i", "r", "a", "M", "o", "n", "o", " ",
    " ", " ", " ", "R", "E", "G", "_", "S", "Z", " ", " ", " ", " ", "F",
    "i", "r", "a", "M", "o", "n", "o", ".", "t", "t", "f", "\r", "\n", " ",
    " ", " ", " ", "A", "r", "i", "a", "l", " ", " ", " ", " ", "R", "E",
    "G", "_", "S", "Z", " ", " ", " ", " ", "a", "r", "i", "a", "l", ".",
    "t", "t", "f", "\r", "\n">>

W_TrueType ==
  <<"\r", "\n", "H", "K", "L", "M", "\\", "F", "o", "n", "t", "s", "\r",
    "\n", " ", " ", " ", " ", "C", "a", "s", "c", "a", "d", "i", "a", " ",
    "M", "o", "n", "o", " ", "(", "T", "r", "u", "e", "T", "y", "p", "e",
    ")", " ", " ", " ", " ", "R", "E", "G", "_", "S", "Z", " ", " ", " ",
    " ", "C", "a", "s", "c", "a", "d", "i", "a", "M", "o", "n", "o", ".",
    "t", "t", "f", "\r", "\n">>

fontWeights ==
  << <<"n", "o", "r", "m", "a", "l">>,
     <<"b", "o", "l", "d">>,
     <<"1", "0", "0">>,
     <<"2", "0", "0">>,
     <<"3", "0", "0">>,
     <<"4", "0", "0">>,
     <<"5", "0", "0">>,
     <<"6", "0", "0">>,
     <<"7", "0", "0">>,
     <<"8", "0", "0">>,
     <<"9", "0", "0">> >>

\* the two builds of the extension in the repository
Builds == {"part_000", "extension"}

\* process.platform; freebsd stands for every platform the code does not name
Platforms == {"win32", "darwin", "linux", "freebsd"}

\* invocations of the command; the second may start while the first is open
Inv == {1, 2}

\* editor.fontFamily before the first invocation
InitialFamilies == {Undefined, <<>>, S_FiraConsolas, S_ConsolasCourier, S_Untidy}

\* editor.fontWeight before the first invocation
InitialWeights == {fontWeights[1]}

\* the user highlights one of the first MaxWeightPick weights (0: none)
MaxWeightPick == 2

\* at most this many config.update calls are outstanding at a time, when
\* the store may lag
MaxPending == 1

\* the errors a failed exec reports (both are Error objects)
ExecErrors ==
  { [isError |-> TRUE, message |-> m] :
      m \in {"Command failed", "stdout maxBuffer length exceeded"} }

\* what child_process.exec throws for an empty command
EmptyCommandError ==
  [isError |-> TRUE, message |-> "The argument 'file' cannot be empty. Received ''"]

NoError == [isError |-> FALSE, message |-> ""]

\* stdout of a successful exec, by platform
Outputs(plat) ==
  IF plat = "win32" THEN {W_Tokens, W_TrueType}
  ELSE {U_Two, U_Blank, <<>>}

MsgNoFonts == <<"No monospaced fonts found on the system.">>
MsgFetch(m) == <<"Error fetching fonts: ", m>>

None == <<>>
FontPicker(i) == <<i, "font">>
WeightPicker(i) == <<i, "weight">>

NoPicker == [state |-> "none", active |-> 0, selected |-> 0]

----------------------------------------------------------------------------
VARIABLES
  build,               \* which build of the extension runs
  platform,            \* process.platform
  cfgFamily,           \* editor.fontFamily as of the updates issued so far
  cfgWeight,           \* editor.fontWeight as of the updates issued so far
  cfgFamily0,          \* editor.fontFamily before the first invocation
  lag,                 \* how many updates the store may have outstanding (0: none,
                       \* it applies each update before the next event)
  pending,             \* config.update calls the store has yet to apply, in order
  storeFamily,         \* configuration store: editor.fontFamily as config.get reads it
  storeWeight,         \* configuration store: editor.fontWeight as config.get reads it
  pc,                  \* per invocation: idle, enumerating (awaiting), returned
  outcome,             \* per invocation: getMonospacedFonts none, rejected, resolved
  execCalls,           \* per invocation: how many times exec was called
  execError,           \* per invocation: the error exec reported, if any
  fonts,               \* per invocation: the enumerated FontList
  items,               \* per invocation: labels of the font picker's items
  originalFont,        \* per invocation: the snapshot the handlers read
  preFlow,             \* per invocation: editor.fontFamily when the flow began
  fontQP,              \* per invocation: fontQuickPick / quickPick
  weightQP,            \* per invocation: weightQuickPick
  lastActiveFontIndex, \* per invocation (part_000): 0-based index, or -1 unset
  selectedFont,        \* per invocation: the font carried into the weight stage
  notified,            \* per invocation: error notifications shown
  written,             \* per invocation: configuration keys it has written
  wroteAfterCommit,    \* per invocation: it wrote after its weight was accepted
  usedAfterDispose,    \* pickers on which show() ran after their dispose()
  uiPicker,            \* the quick input on screen, or None
  hideQ,               \* onDidHide events the host has yet to deliver, in order
  last,                \* the handler that ran last, and what it wrote
  pInput,              \* parser check: the lines / registry entries of the input
  pOutput,             \* parser check: the raw output text
  pFonts,              \* parser check: the parser's result
  pDone                \* parser check: whether the parser has run

uiVars == <<fontQP, weightQP, uiPicker, hideQ, usedAfterDispose>>
flowVars == <<fonts, items, originalFont, preFlow, lastActiveFontIndex, selectedFont>>
parseVars == <<pInput, pOutput, pFonts, pDone>>

enumVars == <<pc, outcome, execCalls, execError, notified>>

vars == <<build, platform, cfgFamily, cfgWeight, cfgFamily0, lag, pending,
          storeFamily, storeWeight, pc, outcome, execCalls, execError,
          fonts, items, originalFont, preFlow, fontQP, weightQP,
          lastActiveFontIndex, selectedFont, notified, written, wroteAfterCommit,
          usedAfterDispose, uiPicker, hideQ, last, pInput, pOutput, pFonts, pDone>>

\* before the command is first invoked
Idle ==
  /\ pc = [i \in Inv |-> "idle"]
  /\ outcome = [i \in Inv |-> "none"]
  /\ execCalls = [i \in Inv |-> 0]
  /\ execError = [i \in Inv |-> NoError]
  /\ fonts = [i \in Inv |-> <<>>]
  /\ items = [i \in Inv |-> <<>>]
  /\ originalFont = [i \in Inv |-> Undefined]
  /\ preFlow = [i \in Inv |-> Undefined]
  /\ fontQP = [i \in Inv |-> NoPicker]
  /\ weightQP = [i \in Inv |-> NoPicker]
  /\ lastActiveFontIndex = [i \in Inv |-> -1]
  /\ selectedFont = [i \in Inv |-> Undefined]
  /\ notified = [i \in Inv |-> <<>>]
  /\ written = [i \in Inv |-> {}]
  /\ wroteAfterCommit = [i \in Inv |-> FALSE]
  /\ usedAfterDispose = {}
  /\ uiPicker = None
  /\ hideQ = <<>>
  /\ last = [op |-> "init", inv |-> 0, writes |-> <<>>]

\* no update has been issued: the store holds the initial settings
Unwritten ==
  /\ cfgFamily0 = cfgFamily
  /\ pending = <<>>
  /\ storeFamily = cfgFamily
  /\ storeWeight = cfgWeight

Init ==
  /\ build \in Builds
  /\ platform \in Platforms
  /\ cfgFamily \in InitialFamilies
  /\ cfgWeight \in InitialWeights
  /\ Unwritten
  /\ lag = 0
  /\ Idle
  /\ pInput = <<>>
  /\ pOutput = <<>>
  /\ pFonts = <<>>
  /\ pDone = FALSE

----------------------------------------------------------------------------
(* The configuration store and the host's quick-input UI.                  *)

\* the weight stage ended by an acceptance with a weight selected
Committed(i) == weightQP[i].state = "disposed" /\ weightQP[i].selected # 0

\* config.update(key, value, Global) for each <<key, value>> of ws, by the
\* handler op of invocation i.  No handler awaits the Thenable it returns:
\* the update is issued here; the store applies it at once (lag = 0) or
\* later (ApplyUpdate).
ConfigUpdate(i, op, ws) ==
  /\ cfgFamily' = IF \E k \in 1..Len(ws) : ws[k][1] = "fontFamily"
                  THEN ws[CHOOSE k \in 1..Len(ws) : ws[k][1] = "fontFamily"][2]
                  ELSE cfgFamily
  /\ cfgWeight' = IF \E k \in 1..Len(ws) : ws[k][1] = "fontWeight"
                  THEN ws[CHOOSE k \in 1..Len(ws) : ws[k][1] = "fontWeight"][2]
                  ELSE cfgWeight
  /\ written' = [written EXCEPT ![i] = @ \cup { ws[k][1] : k \in 1..Len(ws) }]
  /\ wroteAfterCommit' =
       [wroteAfterCommit EXCEPT ![i] = @ \/ (Committed(i) /\ ws # <<>>)]
  /\ last' = [op |-> op, inv |-> i, writes |-> ws]
  /\ IF lag = 0
     THEN /\ storeFamily' = cfgFamily'
          /\ storeWeight' = cfgWeight'
          /\ UNCHANGED pending
     ELSE /\ Len(pending) + Len(ws) <= lag
          /\ pending' = pending \o ws
          /\ UNCHANGED <<storeFamily, storeWeight>>
  /\ UNCHANGED <<cfgFamily0, lag>>

\* the store applies the oldest outstanding update
ApplyUpdate ==
  /\ pending # <<>>
  /\ pending' = Tail(pending)
  /\ storeFamily' = IF Head(pending)[1] = "fontFamily" THEN Head(pending)[2] ELSE storeFamily
  /\ storeWeight' = IF Head(pending)[1] = "fontWeight" THEN Head(pending)[2] ELSE storeWeight
  /\ UNCHANGED <<build, platform, cfgFamily, cfgWeight, cfgFamily0, lag, enumVars,
                 flowVars, uiVars, written, wroteAfterCommit, last, parseVars>>

\* QuickInput.show(): the picker takes the screen; the quick input that was
\* on screen is hidden by the host, which will report it through onDidHide
ShowOnScreen(p) ==
  /\ uiPicker' = p
  /\ hideQ' = IF uiPicker \notin {None, p} THEN Append(hideQ, uiPicker) ELSE hideQ

----------------------------------------------------------------------------
(* getMonospacedFonts and the command handler.                             *)

\* mutant: the Unix command as the default branch
CommandWithDefault(plat) ==
  IF plat = "win32" THEN "reg query" ELSE "fc-list"

\* the command getMonospacedFonts chooses ('' on an unnamed platform)
Command(plat) ==
  IF plat = "win32" THEN "reg query"
  ELSE IF plat \in UnixPlatforms THEN "fc-list"
  ELSE ""

\* what exec's callback can report for a command
ExecOutcomes(plat) ==
  { [error |-> e, stdout |-> <<>>] : e \in ExecErrors }
    \cup { [error |-> NoError, stdout |-> o] : o \in Outputs(plat) }

\* mutant: the message is dropped
errorMessageDropped(b, e) == "Unknown error"

\* error instanceof Error ? error.message : 'Unknown error' (part_000);
\* error.message (extension.ts)
errorMessage(b, e) ==
  IF b = "part_000" /\ ~e.isError THEN "Unknown error" ELSE e.message

\* reject(error), then catch (error) { showErrorMessage(`Error fetching
\* fonts: ${errorMessage}`) }
Catch(i, e) ==
  /\ outcome' = [outcome EXCEPT ![i] = "rejected"]
  /\ execError' = [execError EXCEPT ![i] = e]
  /\ notified' = [notified EXCEPT ![i] = Append(@, MsgFetch(errorMessage(build, e)))]
  /\ pc' = [pc EXCEPT ![i] = "returned"]

\* The command starts (invocation 2 is the one started second):
\* getMonospacedFonts() calls exec.  exec throws on an empty command, inside
\* the promise executor, so the promise rejects and the catch of the command
\* handler runs.
Invoke(i) ==
  /\ pc[i] = "idle"
  /\ \A j \in Inv : j < i => pc[j] # "idle"
  /\ execCalls' = [execCalls EXCEPT ![i] = @ + 1]
  /\ IF Command(platform) = ""
     THEN Catch(i, EmptyCommandError)
     ELSE /\ pc' = [pc EXCEPT ![i] = "enumerating"]
          /\ UNCHANGED <<outcome, execError, notified>>
  /\ ConfigUpdate(i, "invoke", <<>>)
  /\ UNCHANGED <<build, platform, uiVars, flowVars, parseVars>>

\* originalFont?.split(',')[0].trim()
firstFontinOriginalFont(orig) ==
  IF orig = Undefined THEN Undefined ELSE trim(split(orig, ",")[1])

\* the labels of the font picker's items
CandidateLabels(b, fontList, orig) ==
  IF b = "part_000" /\ Truthy(firstFontinOriginalFont(orig))
  THEN <<S_CurrentFont \o firstFontinOriginalFont(orig)>> \o fontList
  ELSE fontList

\* handleFontSelection (part_000) / the inline picker set-up (extension.ts):
\* snapshot the font family, build the items, create and show the picker
handleFontSelection(i, fontList) ==
  /\ originalFont' = IF build = "extension"
                     THEN [j \in Inv |-> storeFamily]
                     ELSE [originalFont EXCEPT ![i] = storeFamily]
  /\ preFlow' = [preFlow EXCEPT ![i] = storeFamily]
  /\ items' = [items EXCEPT ![i] = CandidateLabels(build, fontList, storeFamily)]
  /\ fontQP' = [fontQP EXCEPT ![i] = [state |-> "open", active |-> 0, selected |-> 0]]
  /\ ShowOnScreen(FontPicker(i))
  /\ UNCHANGED <<notified, weightQP, usedAfterDispose, lastActiveFontIndex, selectedFont>>

\* mutant: the empty list is not detected
EmptyResultMissed(fontList) == FALSE

\* fonts.length === 0
EmptyResult(fontList) == Len(fontList) = 0

\* exec's callback, and the rest of the command handler behind the await
ExecCallback(i) ==
  /\ pc[i] = "enumerating"
  /\ \E r \in ExecOutcomes(platform) :
       IF r.error.isError
       THEN /\ Catch(i, r.error)
            /\ UNCHANGED <<uiVars, flowVars>>
       ELSE LET fontList == parseMonospacedFonts(r.stdout, platform)
            IN  /\ outcome' = [outcome EXCEPT ![i] = "resolved"]
                /\ fonts' = [fonts EXCEPT ![i] = fontList]
                /\ pc' = [pc EXCEPT ![i] = "returned"]
                /\ UNCHANGED execError
                /\ IF EmptyResult(fontList)
                   THEN /\ notified' = [notified EXCEPT ![i] = Append(@, MsgNoFonts)]
                        /\ UNCHANGED <<uiVars, items, originalFont, preFlow,
                                       lastActiveFontIndex, selectedFont>>
                   ELSE handleFontSelection(i, fontList)
  /\ ConfigUpdate(i, "execCallback", <<>>)
  /\ UNCHANGED <<build, platform, execCalls, parseVars>>

----------------------------------------------------------------------------
(* The font stage.                                                         *)

\* mutant: the label is used as it is shown
LabelFontKeepMarker(b, label) == label

\* the font a label stands for: items[0].label.replace('Current Font: ',
\* '').trim() in part_000, the label itself in extension.ts
LabelFont(b, label) ==
  IF b = "part_000" THEN trim(replaceFirst(label, S_CurrentFont)) ELSE label

\* mutant: the preview is built on the current setting, not on the original
updatedFontFamilyOnCurrent(sel, orig) ==
  LET parts == IF Truthy(cfgFamily)
               THEN [k \in 1..Len(split(cfgFamily, ",")) |-> trim(split(cfgFamily, ",")[k])]
               ELSE <<>>
  IN  join(removeDuplicates(<<sel>> \o parts), S_commaSpace)

\* [selectedFont, ...originalFont.split(',').map(trim)].filter(first).join(', ')
updatedFontFamily(sel, orig) ==
  LET parts == IF Truthy(orig)
               THEN [k \in 1..Len(split(orig, ",")) |-> trim(split(orig, ",")[k])]
               ELSE <<>>
  IN  join(removeDuplicates(<<sel>> \o parts), S_commaSpace)

\* onDidChangeActive of the font picker: item k becomes active (0: none)
FontChangeActive(i, k) ==
  /\ uiPicker = FontPicker(i)
  /\ hideQ = <<>>
  /\ k \in 0..Len(items[i])
  /\ fontQP' = [fontQP EXCEPT ![i].active = k]
  /\ IF k # 0
     THEN /\ lastActiveFontIndex' =
               IF build = "part_000"
               THEN [lastActiveFontIndex EXCEPT ![i] = indexOf(items[i], items[i][k]) - 1]
               ELSE lastActiveFontIndex
          /\ ConfigUpdate(i, "fontChangeActive",
               << <<"fontFamily",
                    updatedFontFamily(LabelFont(build, items[i][k]), originalFont[i])>> >>)
     ELSE /\ UNCHANGED lastActiveFontIndex
          /\ ConfigUpdate(i, "fontChangeActive", <<>>)
  /\ UNCHANGED <<build, platform, enumVars, fonts, items, originalFont, preFlow,
                 selectedFont, weightQP, uiPicker, hideQ, usedAfterDispose,
                 parseVars>>

\* onDidAccept of the font picker: the active item becomes the selection;
\* with a font, the weight picker is created and shown (handleWeightSelection
\* in part_000, which also calls fontQuickPick.hide()), which hides the font
\* picker
FontAccept(i) ==
  /\ uiPicker = FontPicker(i)
  /\ hideQ = <<>>
  /\ LET sel == fontQP[i].active
         font == IF sel = 0 THEN Undefined ELSE LabelFont(build, items[i][sel])
     IN  /\ fontQP' = [fontQP EXCEPT ![i].selected = sel]
         /\ IF Truthy(font)
            THEN /\ selectedFont' = [selectedFont EXCEPT ![i] = font]
                 /\ weightQP' = [weightQP EXCEPT ![i] =
                                   [state |-> "open", active |-> 0, selected |-> 0]]
                 /\ ShowOnScreen(WeightPicker(i))
            ELSE UNCHANGED <<selectedFont, weightQP, uiPicker, hideQ>>
  /\ ConfigUpdate(i, "fontAccept", <<>>)
  /\ UNCHANGED <<build, platform, enumVars, fonts, items, originalFont, preFlow,
                 lastActiveFontIndex, usedAfterDispose, parseVars>>

\* the user dismisses the quick input on screen (Escape, focus lost): the
\* host hides it and will report it through onDidHide
Dismiss ==
  /\ uiPicker # None
  /\ hideQ = <<>>
  /\ uiPicker' = None
  /\ hideQ' = <<uiPicker>>
  /\ ConfigUpdate(uiPicker[1], "dismiss", <<>>)
  /\ UNCHANGED <<build, platform, enumVars, flowVars, fontQP, weightQP,
                 usedAfterDispose, parseVars>>

\* mutant: the hide handler forgets to dispose the picker
FontDidHideLeak(i) ==
  /\ hideQ # <<>>
  /\ Head(hideQ) = FontPicker(i)
  /\ hideQ' = Tail(hideQ)
  /\ uiPicker' = IF uiPicker = FontPicker(i) THEN None ELSE uiPicker
  /\ IF fontQP[i].selected = 0 /\ Truthy(originalFont[i])
     THEN ConfigUpdate(i, "fontDidHide", << <<"fontFamily", originalFont[i]>> >>)
     ELSE ConfigUpdate(i, "fontDidHide", <<>>)
  /\ UNCHANGED <<build, platform, enumVars, flowVars, fontQP, weightQP,
                 usedAfterDispose, parseVars>>

\* mutant: the hide handler rolls back whether or not a font was accepted
FontDidHideAlways(i) ==
  /\ hideQ # <<>>
  /\ Head(hideQ) = FontPicker(i)
  /\ hideQ' = Tail(hideQ)
  /\ fontQP' = [fontQP EXCEPT ![i].state = "disposed"]
  /\ uiPicker' = IF uiPicker = FontPicker(i) THEN None ELSE uiPicker
  /\ IF Truthy(originalFont[i])
     THEN ConfigUpdate(i, "fontDidHide", << <<"fontFamily", originalFont[i]>> >>)
     ELSE ConfigUpdate(i, "fontDidHide", <<>>)
  /\ UNCHANGED <<build, platform, enumVars, flowVars, weightQP,
                 usedAfterDispose, parseVars>>

\* onDidHide of the font picker: roll back unless something is selected or
\* there is no original, then dispose
FontDidHide(i) ==
  /\ hideQ # <<>>
  /\ Head(hideQ) = FontPicker(i)
  /\ hideQ' = Tail(hideQ)
  /\ fontQP' = [fontQP EXCEPT ![i].state = "disposed"]
  /\ uiPicker' = IF uiPicker = FontPicker(i) THEN None ELSE uiPicker
  /\ IF fontQP[i].selected = 0 /\ Truthy(originalFont[i])
     THEN ConfigUpdate(i, "fontDidHide", << <<"fontFamily", originalFont[i]>> >>)
     ELSE ConfigUpdate(i, "fontDidHide", <<>>)
  /\ UNCHANGED <<build, platform, enumVars, flowVars, weightQP,
                 usedAfterDispose, parseVars>>

----------------------------------------------------------------------------
(* The weight stage.                                                       *)

\* mutant: the first weight is written whatever was chosen
applyWeightFirst(k) ==
  IF k # 0 THEN << <<"fontWeight", fontWeights[1]>> >> ELSE <<>>

\* applyWeight(weight): the write, if there is a weight (k = 0: undefined)
applyWeight(k) ==
  IF k # 0 THEN << <<"fontWeight", fontWeights[k]>> >> ELSE <<>>

\* onDidChangeActive of the weight picker; extension.ts registers no handler
WeightChangeActive(i, k) ==
  /\ uiPicker = WeightPicker(i)
  /\ hideQ = <<>>
  /\ k \in 0..MaxWeightPick
  /\ weightQP' = [weightQP EXCEPT ![i].active = k]
  /\ ConfigUpdate(i, "weightChangeActive",
       IF build = "part_000" THEN applyWeight(k) ELSE <<>>)
  /\ UNCHANGED <<build, platform, enumVars, flowVars, fontQP,
                 uiPicker, hideQ, usedAfterDispose, parseVars>>

\* onDidAccept of the weight picker: write the selected weight and dispose;
\* dispose() of a picker on screen runs its onDidHide handler at once
WeightAccept(i) ==
  /\ uiPicker = WeightPicker(i)
  /\ hideQ = <<>>
  /\ weightQP' = [weightQP EXCEPT ![i].selected = weightQP[i].active,
                                  ![i].state = "disposed"]
  /\ IF build = "part_000" /\ weightQP[i].active = 0
     THEN IF fontQP[i].state = "disposed"
          THEN /\ usedAfterDispose' = usedAfterDispose \cup {FontPicker(i)}
               /\ uiPicker' = None
               /\ UNCHANGED hideQ
          ELSE /\ uiPicker' = FontPicker(i)
               /\ UNCHANGED <<hideQ, usedAfterDispose>>
     ELSE /\ uiPicker' = None
          /\ UNCHANGED <<hideQ, usedAfterDispose>>
  /\ ConfigUpdate(i, "weightAccept", applyWeight(weightQP[i].active))
  /\ UNCHANGED <<build, platform, enumVars, flowVars, fontQP, parseVars>>

\* mutant: the dismissal puts the first weight back
WeightDidHideRollback(i) ==
  /\ hideQ # <<>>
  /\ Head(hideQ) = WeightPicker(i)
  /\ weightQP' = [weightQP EXCEPT ![i].state = "disposed"]
  /\ uiPicker' = IF uiPicker = WeightPicker(i) THEN None ELSE uiPicker
  /\ hideQ' = Tail(hideQ)
  /\ usedAfterDispose' =
       IF build = "part_000" /\ weightQP[i].selected = 0
       THEN usedAfterDispose \cup {FontPicker(i)} ELSE usedAfterDispose
  /\ ConfigUpdate(i, "weightDidHide",
       IF weightQP[i].selected = 0 THEN << <<"fontWeight", fontWeights[1]>> >> ELSE <<>>)
  /\ UNCHANGED <<build, platform, enumVars, flowVars, fontQP, parseVars>>

\* onDidHide of the weight picker: part_000 re-shows the font picker when
\* nothing is selected; both builds dispose the weight picker
WeightDidHide(i) ==
  /\ hideQ # <<>>
  /\ Head(hideQ) = WeightPicker(i)
  /\ weightQP' = [weightQP EXCEPT ![i].state = "disposed"]
  /\ IF build = "part_000" /\ weightQP[i].selected = 0
     THEN IF fontQP[i].state = "disposed"
          THEN /\ usedAfterDispose' = usedAfterDispose \cup {FontPicker(i)}
               /\ uiPicker' = IF uiPicker = WeightPicker(i) THEN None ELSE uiPicker
               /\ hideQ' = Tail(hideQ)
          ELSE /\ uiPicker' = FontPicker(i)
               /\ hideQ' = IF uiPicker \notin {None, FontPicker(i), WeightPicker(i)}
                           THEN Append(Tail(hideQ), uiPicker) ELSE Tail(hideQ)
               /\ UNCHANGED usedAfterDispose
     ELSE /\ uiPicker' = IF uiPicker = WeightPicker(i) THEN None ELSE uiPicker
          /\ hideQ' = Tail(hideQ)
          /\ UNCHANGED usedAfterDispose
  /\ ConfigUpdate(i, "weightDidHide", <<>>)
  /\ UNCHANGED <<build, platform, enumVars, flowVars, fontQP, parseVars>>

----------------------------------------------------------------------------
Next ==
  \/ \E i \in Inv : Invoke(i)
  \/ \E i \in Inv : ExecCallback(i)
  \/ \E i \in Inv : \E k \in 0..Len(items[i]) : FontChangeActive(i, k)
  \/ \E i \in Inv : FontAccept(i)
  \/ Dismiss
  \/ \E i \in Inv : FontDidHide(i)
  \/ \E i \in Inv : \E k \in 0..MaxWeightPick : WeightChangeActive(i, k)
  \/ \E i \in Inv : WeightAccept(i)
  \/ \E i \in Inv : WeightDidHide(i)

\* the store applies each update before the next event is delivered
Spec == Init /\ [][Next]_vars

\* editor.fontFamily before the first invocation, when the store may lag
LaggingFamilies == {Undefined, S_FiraConsolas}

\* the store may lag behind the handlers by up to MaxPending updates
InitLagging ==
  /\ build \in Builds
  /\ platform = "linux"
  /\ cfgFamily \in LaggingFamilies
  /\ cfgWeight \in InitialWeights
  /\ Unwritten
  /\ lag = MaxPending
  /\ Idle
  /\ pInput = <<>>
  /\ pOutput = <<>>
  /\ pFonts = <<>>
  /\ pDone = FALSE

NextLagging == Next \/ ApplyUpdate

SpecLagging == InitLagging /\ [][NextLagging]_vars

----------------------------------------------------------------------------
(* The parser on its own: parseMonospacedFonts applied to bounded inputs.  *)

\* at most this many lines in a Unix-style output
MaxLines == 3

\* at most this many entries in a registry output
MaxEntries == 2

SeqsUpTo(S, n) == UNION { [1..m -> S] : m \in 0..n }

\* lines of a Unix-style output: '', ' ', '.a', ' .a', 'A', 'A ', 'B'
UnixLines == {<<>>, <<" ">>, <<".", "a">>, <<" ", ".", "a">>, <<"A">>, <<"A", " ">>, <<"B">>}

\* value names and value data of registry entries
WinNames == {<<"F", "i", "r", "a", "M", "o", "n", "o">>, <<"M", "O", "N", "O">>, <<"A", "r", "i", "a", "l">>, <<"F", "i", "r", "a", " ", "M", "o", "n", "o">>}
WinPaths == {<<"a", ".", "t", "t", "f">>, <<"a", ".", "o", "t", "f">>}
WinEntries == [name : WinNames, path : WinPaths]

S_sep == <<" ", " ", " ", " ">>
S_crlf == <<"\r", "\n">>
S_lf == <<"\n">>
S_header == <<"\r", "\n", "H", "K", "L", "M", "\\", "F", "o", "n", "t", "s", "\r", "\n">>

\* one line of `reg query` output: "    <name>    REG_SZ    <data>"
RenderEntry(e) == S_sep \o e.name \o S_sep \o S_REG_SZ \o S_sep \o e.path

\* the output of `reg query ... /s` for the entries
RenderRegistry(entries) ==
  S_header \o join([k \in 1..Len(entries) |-> RenderEntry(entries[k]) \o S_crlf], <<>>)

InitParse ==
  /\ build = "part_000"
  /\ platform \in Platforms
  /\ cfgFamily = Undefined
  /\ cfgWeight \in InitialWeights
  /\ Unwritten
  /\ lag = 0
  /\ Idle
  /\ IF platform = "win32"
     THEN /\ pInput \in SeqsUpTo(WinEntries, MaxEntries)
          /\ pOutput = RenderRegistry(pInput)
     ELSE /\ pInput \in SeqsUpTo(UnixLines, MaxLines)
          /\ pOutput \in {join(pInput, S_lf), join(pInput, S_lf) \o S_lf}
  /\ pFonts = <<>>
  /\ pDone = FALSE

Parse ==
  /\ ~pDone
  /\ pFonts' = parseMonospacedFonts(pOutput, platform)
  /\ pDone' = TRUE
  /\ UNCHANGED <<build, platform, cfgFamily, cfgWeight, cfgFamily0, lag, pending,
                 storeFamily, storeWeight, enumVars, flowVars, uiVars,
                 written, wroteAfterCommit, last, pInput, pOutput>>

NextParse == Parse

SpecParse == InitParse /\ [][NextParse]_vars


----------------------------------------------------------------------------
(* Properties.                                                             *)

\* s without its repeated entries, first occurrences kept in order
RECURSIVE Distinct(_)
Distinct(s) ==
  IF s = <<>> THEN <<>>
  ELSE <<Head(s)>> \o Distinct(SelectSeq(Tail(s), LAMBDA x : x # Head(s)))

endsWith(s, sub) == Len(s) >= Len(sub) /\ MatchesAt(s, sub, Len(s) - Len(sub) + 1)

NoRepeats(s) == \A a, b \in 1..Len(s) : s[a] = s[b] => a = b

\* C8: for Unix-style output the parser returns exactly the names of the
\* lines that are not blank and do not start with '.', each once, in
\* first-seen order; so no empty name, no name beginning with '.', no
\* repeated name.  (A line's name is the line without surrounding white
\* space.)
C8_UnixLines ==
  (pDone /\ platform \in UnixPlatforms) =>
    LET kept == SelectSeq(pInput,
                  LAMBDA l : trim(l) # <<>> /\ ~startsWith(trim(l), S_dot))
    IN  /\ pFonts = Distinct([k \in 1..Len(kept) |-> trim(kept[k])])
        /\ \A k \in 1..Len(pFonts) :
             pFonts[k] # <<>> /\ ~startsWith(pFonts[k], S_dot)
        /\ NoRepeats(pFonts)

\* C9: for registry output the parser returns exactly the names of the
\* entries "<name> REG_SZ <path ending in .ttf>" whose name contains "mono"
\* in any letter case, each once, in first-seen order.
C9_RegistryEntries ==
  (pDone /\ platform = "win32") =>
    LET kept == SelectSeq(pInput,
                  LAMBDA e : /\ includes(toLowerCase(e.name), S_mono)
                             /\ endsWith(e.path, S_ttf))
    IN  pFonts = Distinct([k \in 1..Len(kept) |-> kept[k].name])

\* the entries of a font-family setting: its comma-separated parts, trimmed
Entries(family) ==
  IF Truthy(family)
  THEN [k \in 1..Len(split(family, ",")) |-> trim(split(family, ",")[k])]
  ELSE <<>>

\* the font that item k of invocation i's font picker stands for: the first
\* fallback of the original setting for the marker entry, the enumerated
\* font otherwise
Candidate(i, k) ==
  LET markers == Len(items[i]) - Len(fonts[i])
  IN  IF k <= markers THEN Entries(preFlow[i])[1] ELSE fonts[i][k - markers]

\* the candidate, then the original entries without the candidate and
\* without repeats, joined by ', '
ExpectedPreview(cand, family) ==
  join(<<cand>> \o Distinct(SelectSeq(Entries(family), LAMBDA e : e # cand)),
       S_commaSpace)

S_Consolas == <<"C", "o", "n", "s", "o", "l", "a", "s">>
S_ConsolasFira ==
  <<"C", "o", "n", "s", "o", "l", "a", "s", ",", " ", "F", "i", "r", "a", " ",
    "C", "o", "d", "e">>

\* the hide of invocation i's font picker that was just handled was a
\* dismissal without an acceptance: nothing is selected in it
FontDismissed(i) ==
  /\ last.op = "fontDidHide"
  /\ last.inv = i
  /\ fontQP[i].selected = 0

\* the hide of invocation i's weight picker that was just handled was a
\* dismissal: no weight is selected
WeightDismissed(i) ==
  /\ last.op = "weightDidHide"
  /\ last.inv = i
  /\ weightQP[i].selected = 0

\* no picker of invocation i exists, is on screen or awaits an event
NoPickerOf(i) ==
  /\ fontQP[i] = NoPicker
  /\ weightQP[i] = NoPicker
  /\ items[i] = <<>>
  /\ uiPicker \notin {FontPicker(i), WeightPicker(i)}
  /\ \A k \in 1..Len(hideQ) : hideQ[k] \notin {FontPicker(i), WeightPicker(i)}

\* C1: in an invocation whose original font family is non-empty, a
\* dismissal of the font picker leaves editor.fontFamily at the value it
\* had before the flow began.
C1_RollbackExact ==
  \A i \in Inv :
    (FontDismissed(i) /\ Truthy(preFlow[i])) => cfgFamily = preFlow[i]

\* C2: the value the latest live preview wrote is the highlighted candidate
\* followed by the original fallback chain without the candidate and
\* without repeats, joined by ', ', whatever was previewed before.
C2_PreviewValue ==
  \A i \in Inv :
    (last.op = "fontChangeActive" /\ last.inv = i /\ fontQP[i].active # 0) =>
      /\ cfgFamily = ExpectedPreview(Candidate(i, fontQP[i].active), preFlow[i])
      /\ last.writes = << <<"fontFamily", cfgFamily>> >>

C2_Witness ==
  /\ last.op = "fontChangeActive"
  /\ last.inv = 1
  /\ preFlow[1] = S_FiraConsolas
  /\ fontQP[1].active # 0
  /\ Candidate(1, fontQP[1].active) = S_Consolas
  /\ cfgFamily = S_ConsolasFira

\* C3: when the weight picker is dismissed, the font picker is the live
\* picker again, with the item highlighted last as its active item.
C3_BackToFontStage ==
  \A i \in Inv :
    (build = "part_000" /\ WeightDismissed(i)) =>
      /\ uiPicker = FontPicker(i)
      /\ fontQP[i].state = "open"
      /\ fontQP[i].active = lastActiveFontIndex[i] + 1

\* C4: accepting a weight writes exactly that weight to editor.fontWeight
\* and ends the flow: no picker of the invocation stays live and the
\* invocation writes nothing afterwards.
C4_WeightCommit ==
  \A i \in Inv :
    /\ (last.op = "weightAccept" /\ last.inv = i /\ weightQP[i].selected # 0) =>
         /\ last.writes = << <<"fontWeight", fontWeights[weightQP[i].selected]>> >>
         /\ cfgWeight = fontWeights[weightQP[i].selected]
         /\ Committed(i)
    /\ Committed(i) =>
         /\ fontQP[i].state = "disposed"
         /\ uiPicker \notin {FontPicker(i), WeightPicker(i)}
         /\ \A k \in 1..Len(hideQ) : hideQ[k] \notin {FontPicker(i), WeightPicker(i)}
    /\ ~wroteAfterCommit[i]

C4_Witness ==
  /\ last.op = "weightAccept"
  /\ last.inv = 1
  /\ Committed(1)
  /\ weightQP[1].selected = 2
  /\ cfgWeight = fontWeights[2]

\* C5: an enumeration that yields no font shows the error notification,
\* creates no picker and writes no configuration key.
C5_EmptyResult ==
  \A i \in Inv :
    (outcome[i] = "resolved" /\ fonts[i] = <<>>) =>
      /\ notified[i] = <<MsgNoFonts>>
      /\ NoPickerOf(i)
      /\ written[i] = {}

C5_Witness ==
  /\ outcome[1] = "resolved"
  /\ fonts[1] = <<>>
  /\ pc[1] = "returned"
  /\ pc[2] = "returned"

\* C6: a failed enumeration shows one notification with the error's message;
\* exec is not called again, no picker is created, no key is written.
C6_EnumerationError ==
  \A i \in Inv :
    outcome[i] = "rejected" =>
      /\ notified[i] = <<MsgFetch(execError[i].message)>>
      /\ execError[i].isError
      /\ execCalls[i] = 1
      /\ pc[i] = "returned"
      /\ NoPickerOf(i)
      /\ written[i] = {}

C6_Witness ==
  /\ outcome[1] = "rejected"
  /\ execError[1].message = "Command failed"
  /\ pc[2] = "returned"

\* C7: on a platform other than win32, darwin and linux the enumeration
\* rejects; it never resolves to a font list.
C7_UnknownPlatform ==
  platform \notin {"win32", "darwin", "linux"} =>
    \A i \in Inv :
      /\ outcome[i] # "resolved"
      /\ pc[i] # "idle" => outcome[i] = "rejected"

C7_Witness ==
  /\ platform = "freebsd"
  /\ outcome[1] = "rejected"
  /\ notified[1] = <<MsgFetch(EmptyCommandError.message)>>

\* C10: dismissing the weight picker writes nothing: editor.fontWeight stays
\* at the weight previewed last, and editor.fontFamily is not written.
C10_WeightDismissKeeps ==
  \A i \in Inv :
    WeightDismissed(i) =>
      /\ last.writes = <<>>
      /\ (build = "part_000" /\ weightQP[i].active # 0) =>
           cfgWeight = fontWeights[weightQP[i].active]

C10_Witness ==
  /\ build = "part_000"
  /\ WeightDismissed(1)
  /\ weightQP[1].active = 2
  /\ cfgWeight = fontWeights[2]
  /\ cfgWeight \notin InitialWeights

\* C11: in an invocation whose original font family is absent (undefined or
\* empty), a dismissal of the font picker writes nothing: editor.fontFamily
\* stays at the value of the last preview.
C11_AbsentOriginalKeeps ==
  \A i \in Inv :
    (FontDismissed(i) /\ ~Truthy(preFlow[i])) => last.writes = <<>>

\* the pickers invocation i has created
PickersOf(i) ==
  { p \in {FontPicker(i), WeightPicker(i)} :
      (IF p = FontPicker(i) THEN fontQP[i] ELSE weightQP[i]) # NoPicker }

\* the state of a picker
PickerState(p) == IF p[2] = "font" THEN fontQP[p[1]].state ELSE weightQP[p[1]].state

\* the host still holds the picker: it is on screen, or its hide has yet to
\* be reported
HeldByHost(p) == uiPicker = p \/ \E k \in 1..Len(hideQ) : hideQ[k] = p

\* invocation i's flow has ended: by a committed weight, or by a dismissal
\* of its font picker
Ended(i) ==
  \/ Committed(i)
  \/ fontQP[i].state = "disposed" /\ weightQP[i] = NoPicker

Live(p) == uiPicker = p /\ PickerState(p) = "open"

\* the picker whose handler ran last
Writer ==
  IF last.op \in {"fontChangeActive", "fontAccept", "fontDidHide"}
  THEN FontPicker(last.inv)
  ELSE WeightPicker(last.inv)

\* C13: at most one stage is live, and every configuration write is made by
\* a handler of the live stage: no handler writes while the picker of
\* another stage is the live one.
C13_OneLiveStage ==
  /\ Cardinality({ p \in UNION { PickersOf(i) : i \in Inv } : Live(p) }) <= 1
  /\ last.writes # <<>> => uiPicker \in {None, Writer}

\* C15: in the weight stage every highlight change to an item at once writes
\* that item's token to editor.fontWeight, and every value written to
\* editor.fontWeight is one of the eleven weight tokens.
C15_WeightPreview ==
  /\ \A i \in Inv :
       (last.op = "weightChangeActive" /\ last.inv = i /\ weightQP[i].active # 0) =>
         /\ last.writes = << <<"fontWeight", fontWeights[weightQP[i].active]>> >>
         /\ cfgWeight = fontWeights[weightQP[i].active]
  /\ \A k \in 1..Len(last.writes) :
       last.writes[k][1] = "fontWeight" => last.writes[k][2] \in Range(fontWeights)

\* the first fallback name of a font-family setting ('' when there is none)
FirstFallback(family) ==
  IF Entries(family) = <<>> THEN <<>> ELSE Entries(family)[1]

\* C16: the font picker lists the enumerated fonts, preceded by the entry
\* 'Current Font: <first fallback>' exactly when the original setting has a
\* non-empty first fallback; the font used for an entry (highlighted or
\* accepted) is the label without the marker: the first fallback for the
\* marker entry, the enumerated name itself for every other entry.
C16_MarkerStripped ==
  \A i \in Inv :
    (build = "part_000" /\ fontQP[i] # NoPicker) =>
      /\ items[i] =
           (IF FirstFallback(preFlow[i]) # <<>>
            THEN <<S_CurrentFont \o FirstFallback(preFlow[i])>> ELSE <<>>) \o fonts[i]
      /\ \A k \in 1..Len(items[i]) : LabelFont(build, items[i][k]) = Candidate(i, k)
      /\ (last.op = "fontChangeActive" /\ last.inv = i /\ fontQP[i].active # 0) =>
           trim(split(cfgFamily, ",")[1]) = Candidate(i, fontQP[i].active)
      /\ selectedFont[i] # Undefined =>
           selectedFont[i] = Candidate(i, fontQP[i].selected)

C16_Witness ==
  /\ build = "part_000"
  /\ preFlow[1] = S_ConsolasCourier
  /\ items[1][1] = S_CurrentFont \o S_Consolas
  /\ last.op = "fontAccept"
  /\ last.inv = 1
  /\ fontQP[1].selected = 1
  /\ selectedFont[1] = S_Consolas

\* C17: accepting a font never triggers the rollback: the hide of the font
\* picker that follows an acceptance writes nothing, and when an invocation
\* commits, editor.fontFamily begins with the accepted font and
\* editor.fontWeight is the accepted weight.
C17_AcceptKeepsFont ==
  \A i \in Inv :
    /\ (last.op = "fontDidHide" /\ last.inv = i /\ fontQP[i].selected # 0) =>
         last.writes = <<>>
    /\ (last.op = "weightAccept" /\ last.inv = i /\ Committed(i)) =>
         /\ trim(split(cfgFamily, ",")[1]) = selectedFont[i]
         /\ selectedFont[i] = Candidate(i, fontQP[i].selected)
         /\ cfgWeight = fontWeights[weightQP[i].selected]

C17_Witness ==
  /\ last.op = "weightAccept"
  /\ last.inv = 1
  /\ Committed(1)
  /\ preFlow[1] = S_FiraConsolas
  /\ selectedFont[1] = S_Consolas
  /\ cfgFamily = S_ConsolasFira
  /\ cfgWeight = fontWeights[2]

\* C14: cancellation is synchronous: when the font picker's onDidHide has
\* run after a dismissal and the flow is idle again, the rollback has taken
\* effect in the store and no earlier preview is outstanding.
C14_RollbackApplied ==
  \A i \in Inv :
    (FontDismissed(i) /\ last.writes # <<>>) =>
      /\ storeFamily = last.writes[1][2]
      /\ \A k \in 1..Len(pending) :
           pending[k][1] = "fontFamily" => pending[k][2] = last.writes[1][2]

\* both invocations have ended by a dismissal of their font picker, with
\* nothing accepted
BothDismissed ==
  /\ hideQ = <<>>
  /\ \A i \in Inv :
       /\ fontQP[i].state = "disposed"
       /\ fontQP[i].selected = 0
       /\ weightQP[i] = NoPicker

\* C18: the snapshot an invocation previews on and rolls back to is the
\* value configured before any invocation's preview: when two invocations
\* have both ended by dismissal, editor.fontFamily is the (non-empty) value
\* it had before the first invocation began.
C18_SnapshotBeforePreviews ==
  (BothDismissed /\ Truthy(cfgFamily0)) =>
    /\ cfgFamily = cfgFamily0
    /\ \A i \in Inv : preFlow[i] = cfgFamily0

\* C19: no picker is used after it has been disposed: show() and hide() are
\* never called on a picker whose dispose() has run; in particular the font
\* picker the weight stage shows again has not been disposed.
C19_NoUseAfterDispose ==
  /\ usedAfterDispose = {}
  /\ \A i \in Inv :
       (build = "part_000" /\ WeightDismissed(i)) => fontQP[i].state # "disposed"

====
